---- MODULE Spec2Model ----
(***************************************************************************)
(* Verdict-to-payment pipeline of POST /api/audit-machine, in its three    *)
(* revisions:                                                              *)
(*   "A"  src/unnamed/part_000   video/audio/report, no fallback           *)
(*   "B"  src/Backend/server.js  photo/report, generic fallback            *)
(*   "C"  src/unnamed/part_001   photo/report, filename-trigger fallback   *)
(* A request is a sequence of atomic segments separated by the handler's   *)
(* suspension points (multer upload, await generateContent, await          *)
(* getBalance, await sendAndConfirmTransaction).                           *)
(***************************************************************************)
EXTENDS Integers, Sequences, FiniteSets, TLC

\* ------------------------------------------------------------------ bounds
NumReqs == 2
MaxClock == 1

Reqs == 1..NumReqs
Revs == {"A", "B", "C"}

\* ------------------------------------------------------- program constants
LAMPORTS_PER_SOL == 1000000000
GasReserve == 5000
FileSizeLimit == 10 * 1024 * 1024
allowedTypes == {"image/jpeg", "image/png", "image/jpg", "image/webp", "application/pdf"}

\* lamports moved by SystemProgram.transfer in each revision
amountToSend(rv) == IF rv = "C" THEN LAMPORTS_PER_SOL \div 100 ELSE LAMPORTS_PER_SOL \div 10

\* the guard in front of the transfer: TRUE when the handler throws
\* "Insufficient funds in vault wallet"; revision A has no guard
InsufficientFunds(rv, balance) ==
    CASE rv = "C" -> balance < amountToSend(rv) + GasReserve
      [] rv = "B" -> balance < LAMPORTS_PER_SOL \div 10
      [] OTHER    -> FALSE

\* ------------------------------------------------------------- JS values
\* a primitive value: t is the JS type, the other fields carry the payload
JUndef   == [t |-> "undefined", b |-> FALSE, n |-> 0, s |-> <<>>]
JNull    == [t |-> "null",      b |-> FALSE, n |-> 0, s |-> <<>>]
JBool(x) == [t |-> "boolean",   b |-> x,     n |-> 0, s |-> <<>>]
JNum(k)  == [t |-> "number",    b |-> FALSE, n |-> k, s |-> <<>>]
\* a string is a sequence of text pieces, so that += is concatenation
JStr(x)  == [t |-> "string",    b |-> FALSE, n |-> 0, s |-> x]

\* property names that occur in verdicts, envelopes and error bodies
AllKeys == {"status", "confidence", "analysis", "paymentAuthorized", "deviation_detected",
            "paymentStatus", "txSignature", "explorerUrl", "explorerLink", "timestamp",
            "error", "message"}

EmptyObj == [k \in AllKeys |-> JUndef]
\* a value: an object (o: property -> primitive, JUndef = no such property)
\* or a primitive (p)
Obj(o)  == [kind |-> "obj",  p |-> JUndef, o |-> o]
Prim(p) == [kind |-> "prim", p |-> p,      o |-> EmptyObj]
NoVal == Prim(JUndef)

\* v.key ; the caller checks CanRead(v) first (null.key is a TypeError)
CanRead(v) == ~(v.kind = "prim" /\ v.p.t \in {"null", "undefined"})
Get(v, key) == IF v.kind = "obj" THEN v.o[key] ELSE JUndef

\* String(x) as used by `x + " text"`
ToStr(x) ==
    CASE x.t = "string"    -> x.s
      [] x.t = "undefined" -> <<"undefined">>
      [] x.t = "null"      -> <<"null">>
      [] x.t = "boolean"   -> IF x.b THEN <<"true">> ELSE <<"false">>
      [] OTHER             -> <<ToString(x.n)>>

\* { ...v, k1: x1, ... } : own properties of v, then the listed overrides
\* variant: the spread comes last, { k1: x1, ..., ...v }
Spread_last(v, over) ==
    [k \in AllKeys |-> IF v.kind = "obj" /\ v.o[k] # JUndef THEN v.o[k]
                       ELSE IF k \in DOMAIN over THEN over[k] ELSE JUndef]
Spread(v, over) ==
    [k \in AllKeys |-> IF k \in DOMAIN over THEN over[k]
                       ELSE IF v.kind = "obj" THEN v.o[k] ELSE JUndef]

\* ------------------------------------------------------------ file names
Upper == <<"A","B","C","D","E","F","G","H","I","J","K","L","M",
           "N","O","P","Q","R","S","T","U","V","W","X","Y","Z">>
Lower == <<"a","b","c","d","e","f","g","h","i","j","k","l","m",
           "n","o","p","q","r","s","t","u","v","w","x","y","z">>
\* variant: the name is matched as uploaded, without lower-casing
toLowerCase_asIs(str) == str
toLowerCase(str) ==
    [i \in 1..Len(str) |->
        IF \E j \in 1..26 : Upper[j] = str[i]
        THEN Lower[CHOOSE j \in 1..26 : Upper[j] = str[i]]
        ELSE str[i]]
includes(str, tok) ==
    \E i \in 1..(Len(str) - Len(tok) + 1) : SubSeq(str, i, i + Len(tok) - 1) = tok

\* Filename-trigger test of the controlled demo mode
TriggerTokens == {<<"b","a","d">>, <<"f","a","i","l">>,
                  <<"b","r","o","k","e","n">>, <<"e","r","r","o","r">>}
HasTrigger(originalname) ==
    LET filename == toLowerCase(originalname)
    IN \E tok \in TriggerTokens : includes(filename, tok)

\* ---------------------------------------------------------- canned verdicts
Verdict(st, conf, text, auth) ==
    [EmptyObj EXCEPT !["status"] = JStr(<<st>>), !["confidence"] = JNum(conf),
                     !["analysis"] = JStr(<<text>>), !["paymentAuthorized"] = JBool(auth)]

\* module-level object of revision C, shared by every request
DEMO_SCENARIOS_INIT ==
    [PASS |-> Verdict("HEALTHY", 96,
                      "DEMO VERIFIED: Machine matches maintenance records. No visible rust, leaks, or wear detected on the primary components. (Backup: Filename trigger 'Healthy')",
                      TRUE),
     FAIL |-> Verdict("CRITICAL", 89,
                      "DEMO ALERT: Safety hazard detected. Severe corrosion visible on the hydraulic casing. Immediate maintenance required. Payment suspended. (Backup: Filename trigger 'Fail')",
                      FALSE)]

\* object literal built per request by revision B
BackupVerdict ==
    Verdict("HEALTHY", 85,
            "DEMO MODE: Photo analysis completed using backup system. Machine appears operational. (AI Service temporarily unavailable)",
            TRUE)

\* ------------------------------------------------- inference reply as text
\* The reply is a sequence of tokens: fences, whitespace, braces, commas,
\* "key": value members, literals and prose words.
Tok(ch)    == [ch |-> ch,    k |-> "", v |-> JUndef]
KV(key, x) == [ch |-> "kv",  k |-> key, v |-> x]
Lit(x)     == [ch |-> "lit", k |-> "", v |-> x]

\* the two fence markers: three backticks followed by json, three backticks
IsFence(tk) == tk.ch \in {"fence-json", "fence"}
IsSpace(tk) == tk.ch \in {" ", "newline"}

\* responseText.replace(<fence regex>, ""): every fence marker is removed
RemoveFences(text) == SelectSeq(text, LAMBDA tk : ~IsFence(tk))

\* String.prototype.trim
trim(text) ==
    IF \A i \in 1..Len(text) : IsSpace(text[i]) THEN <<>>
    ELSE LET first == CHOOSE i \in 1..Len(text) :
                         ~IsSpace(text[i]) /\ \A j \in 1..(i - 1) : IsSpace(text[j])
             last  == CHOOSE i \in 1..Len(text) :
                         ~IsSpace(text[i]) /\ \A j \in (i + 1)..Len(text) : IsSpace(text[j])
         IN SubSeq(text, first, last)

\* 0-based indexOf / lastIndexOf of a one-token pattern, -1 when absent
indexOf(text, ch) ==
    IF \E i \in 1..Len(text) : text[i].ch = ch
    THEN (CHOOSE i \in 1..Len(text) :
             text[i].ch = ch /\ \A j \in 1..(i - 1) : text[j].ch # ch) - 1
    ELSE -1
lastIndexOf(text, ch) ==
    IF \E i \in 1..Len(text) : text[i].ch = ch
    THEN (CHOOSE i \in 1..Len(text) :
             text[i].ch = ch /\ \A j \in (i + 1)..Len(text) : text[j].ch # ch) - 1
    ELSE -1

\* String.prototype.substring(start, end): 0-based, end exclusive, the
\* arguments are swapped when start > end
substring(text, start, end) ==
    LET lo == IF start <= end THEN start ELSE end
        hi == IF start <= end THEN end ELSE start
    IN SubSeq(text, lo + 1, hi)

\* the text handed to JSON.parse
CleanJson(rv, responseText) ==
    LET cleanJson    == trim(RemoveFences(responseText))
        firstBracket == indexOf(cleanJson, "{")
        lastBracket  == lastIndexOf(cleanJson, "}")
    IN IF rv = "C" /\ firstBracket # -1 /\ lastBracket # -1
       THEN substring(cleanJson, firstBracket, lastBracket + 1)
       ELSE cleanJson

\* JSON.parse on the token text: a lone literal, or { member, member, ... };
\* whitespace between tokens is insignificant, a repeated key keeps its last
\* value, anything else is a SyntaxError (ok = FALSE)
JSONparse(text) ==
    LET t == SelectSeq(text, LAMBDA tk : ~IsSpace(tk))
        n == Len(t)
        inner == IF n >= 2 THEN SubSeq(t, 2, n - 1) ELSE <<>>
        m == Len(inner)
        isObject ==
            /\ n >= 2 /\ t[1].ch = "{" /\ t[n].ch = "}"
            /\ (m = 0 \/ m % 2 = 1)
            /\ \A i \in 1..m : IF i % 2 = 1 THEN inner[i].ch = "kv" ELSE inner[i].ch = ","
        members == [key \in AllKeys |->
            IF \E i \in 1..m : inner[i].ch = "kv" /\ inner[i].k = key
            THEN inner[CHOOSE i \in 1..m :
                     /\ inner[i].ch = "kv" /\ inner[i].k = key
                     /\ \A j \in (i + 1)..m : ~(inner[j].ch = "kv" /\ inner[j].k = key)].v
            ELSE JUndef]
    IN IF n = 1 /\ t[1].ch = "lit" THEN [ok |-> TRUE, val |-> Prim(t[1].v)]
       ELSE IF isObject THEN [ok |-> TRUE, val |-> Obj(members)]
       ELSE [ok |-> FALSE, val |-> NoVal]

\* ------------------------------------------------------------ uploads
Roles == {"photo", "video", "audio", "report"}
\* upload.fields([...]) of each revision, in the order the parts arrive
FieldOrder(rv) == IF rv = "A" THEN <<"video", "audio", "report">> ELSE <<"photo", "report">>

NoPath == [pre |-> -1, name |-> <<>>]
NoFile == [originalname |-> <<>>, mimetype |-> "", path |-> NoPath]
NoFiles == [role \in Roles |-> NoFile]
Present(files) == {role \in Roles : files[role] # NoFile}

\* storage.filename: Date.now() + '-' + file.originalname (revisions B, C);
\* multer({dest}) of revision A draws a random name, unique per stored file
filename(rv, r, role, now, originalname) ==
    IF rv = "A" THEN [pre |-> 0, name |-> <<"rnd", ToString(r), role>>]
    ELSE [pre |-> now, name |-> originalname]

\* fileFilter + limits.fileSize of revisions B and C; revision A accepts all.
\* "type": cb(new Error(...)), "size": MulterError LIMIT_FILE_SIZE, "ok"
fileFilter(rv, cand) ==
    IF rv = "A" THEN "ok"
    ELSE IF cand.mimetype \notin allowedTypes THEN "type"
    ELSE IF cand.size > FileSizeLimit THEN "size"
    ELSE "ok"

\* outcome of the multer middleware over the parts of one request
Intake(rv, up) ==
    LET ord == FieldOrder(rv)
        bad == {i \in 1..Len(ord) : up[ord[i]].present /\ fileFilter(rv, up[ord[i]]) # "ok"}
    IN IF bad = {} THEN "ok"
       ELSE fileFilter(rv, up[ord[CHOOSE i \in bad : \A j \in bad : i <= j]])

\* error handling middleware, then the express default handler
IntakeErrorStatus(rv, kind) ==
    IF rv # "A" /\ kind = "size" THEN 400 ELSE 500

\* cleanupFiles(files): unlink every staged file that still exists; its own
\* try/catch keeps it from throwing
cleanupFiles(files, disk) == disk \ {files[role].path : role \in Present(files)}

\* fs.readFileSync succeeds for every file handed to fileToGenerativePart
Readable(rv, files, disk) ==
    \A role \in Present(files) : files[role].path \in disk

\* validation at the top of the handler: TRUE when the request goes on
\* variant: any uploaded file counts, the check of revision A used everywhere
HasRequiredEvidence_anyFile(rv, files) == Present(files) # {}
HasRequiredEvidence(rv, files) ==
    IF rv = "A" THEN Present(files) # {} ELSE files["photo"] # NoFile

\* --------------------------------------------------------------- state
VARIABLES
    rev,             \* the revision that is deployed
    req,             \* per request: handler position, locals, observed effects
    DEMO_SCENARIOS,  \* the shared canned verdicts of revision C
    uploads,         \* paths that exist in uploads/
    vaultBalance,    \* lamports of the custodial account on the ledger
    clock            \* Date.now()

vars == <<rev, req, DEMO_SCENARIOS, uploads, vaultBalance, clock>>

InitReq ==
    [pc |-> "new", intake |-> "none", files |-> NoFiles, staged |-> {},
     vref |-> "none", own |-> NoVal, aiOut |-> "none", fallback |-> FALSE,
     reply |-> <<>>, parsed |-> "none", obtained |-> NoVal,
     paymentStatus |-> "", txSignature |-> JNull, explorerUrl |-> JNull,
     balanceRead |-> -1,
     sendOut |-> "none", caught |-> "",
     code |-> 0, body |-> EmptyObj,
     aiCalls |-> 0, balanceQueries |-> 0, transfers |-> <<>>, purges |-> 0]

\* the verdict object aiVerdict refers to
Deref(q, ds) == IF q.vref = "own" THEN q.own
                ELSE IF q.vref \in {"PASS", "FAIL"} THEN Obj(ds[q.vref])
                ELSE NoVal

Timestamp(now) == JStr(<<"iso", ToString(now)>>)
Out(q, ds, disk) == [q |-> q, ds |-> ds, disk |-> disk]

Respond(q, code, body) == [q EXCEPT !.pc = "responded", !.code = code, !.body = body]

ErrorBody(err, msg, now) ==
    [EmptyObj EXCEPT !["error"] = JStr(<<err>>), !["message"] = msg, !["timestamp"] = now]

\* return res.status(400).json({error: ...}) : no cleanup on this path
Reject400(q, ds, disk, now) ==
    Out(Respond(q, 400, ErrorBody("No evidence uploaded", JUndef, JUndef)), ds, disk)

\* outer catch: revisions B and C purge and answer 500 with the message,
\* revision A only answers 500
Fail500(rv, q, ds, disk, msg, now) ==
    IF rv = "A"
    THEN Out(Respond(q, 500, ErrorBody("Audit Failed", JUndef, JUndef)), ds, disk)
    ELSE Out(Respond([q EXCEPT !.purges = @ + 1], 500,
                     ErrorBody("Internal Server Error", JStr(<<msg>>), Timestamp(now))),
             ds, cleanupFiles(q.files, disk))

\* variant: the link is built whether or not there is a signature
ExplorerLink_always(sig) ==
    JStr(<<"https://explorer.solana.com/tx/">> \o ToStr(sig) \o <<"?cluster=devnet">>)
ExplorerLink(sig) ==
    IF sig.t = "string"
    THEN JStr(<<"https://explorer.solana.com/tx/">> \o sig.s \o <<"?cluster=devnet">>)
    ELSE JNull

\* cleanupFiles(req.files); res.json({...aiVerdict, paymentStatus, ...})
Finish200(rv, q, ds, disk, now) ==
    LET over == [paymentStatus |-> JStr(<<q.paymentStatus>>),
                 txSignature   |-> q.txSignature,
                 explorerUrl   |-> q.explorerUrl,
                 timestamp     |-> Timestamp(now)]
    IN Out(Respond([q EXCEPT !.purges = @ + 1], 200, Spread(Deref(q, ds), over)),
           ds, cleanupFiles(q.files, disk))

\* res.json of revision A: the files were unlinked right after the parse
FinishA(q, ds, disk) ==
    LET over == [paymentStatus |-> JStr(<<q.paymentStatus>>),
                 txSignature   |-> q.txSignature,
                 explorerLink  |-> ExplorerLink(q.txSignature)]
    IN Out(Respond(q, 200, Spread(Deref(q, ds), over)), ds, disk)

\* ------------------------------------------------------ handler segments
\* inner catch (aiError): the fallback verdict of the revision
\* variant: the generic fallback refuses the payment
Fallback_frozen(rv, q) ==
    IF rv = "C"
    THEN [q EXCEPT !.fallback = TRUE,
                   !.vref = IF HasTrigger(q.files["photo"].originalname) THEN "FAIL" ELSE "PASS"]
    ELSE [q EXCEPT !.fallback = TRUE, !.vref = "own",
                   !.own = Obj(Verdict("CRITICAL", 0, "DEMO MODE", FALSE))]
\* variant: the branches of the trigger test are swapped
Fallback_swapped(rv, q) ==
    IF rv = "C"
    THEN [q EXCEPT !.fallback = TRUE,
                   !.vref = IF HasTrigger(q.files["photo"].originalname) THEN "PASS" ELSE "FAIL"]
    ELSE [q EXCEPT !.fallback = TRUE, !.vref = "own", !.own = Obj(BackupVerdict)]
Fallback(rv, q) ==
    IF rv = "C"
    THEN [q EXCEPT !.fallback = TRUE,
                   !.vref = IF HasTrigger(q.files["photo"].originalname) THEN "FAIL" ELSE "PASS"]
    ELSE [q EXCEPT !.fallback = TRUE, !.vref = "own", !.own = Obj(BackupVerdict)]

\* "3. BLOCKCHAIN PAYMENT" up to the await of getBalance (revisions B, C).
\* Revision C logs aiVerdict.status first, which throws on null.
\* variant: `if (aiVerdict.paymentAuthorized)`, a truthiness test in place
\* of the comparison with true
Truthy(x) ==
    \/ x.t = "boolean" /\ x.b
    \/ x.t = "string" /\ x.s # <<>>
    \/ x.t = "number" /\ x.n # 0
Settle_truthy(rv, q, ds, disk, now) ==
    LET v  == Deref(q, ds)
        q0 == [q EXCEPT !.obtained = v]
    IN IF ~CanRead(v)
       THEN Fail500(rv, q0, ds, disk, "Cannot read properties of null", now)
       ELSE IF Truthy(Get(v, "paymentAuthorized"))
       THEN Out([q0 EXCEPT !.pc = "awaitBalance", !.balanceQueries = @ + 1], ds, disk)
       ELSE Finish200(rv, [q0 EXCEPT !.paymentStatus = "SKIPPED"], ds, disk, now)
Settle(rv, q, ds, disk, now) ==
    LET v  == Deref(q, ds)
        q0 == [q EXCEPT !.obtained = v]
    IN IF ~CanRead(v)
       THEN Fail500(rv, q0, ds, disk, "Cannot read properties of null", now)
       ELSE IF Get(v, "paymentAuthorized") = JBool(TRUE)
       THEN Out([q0 EXCEPT !.pc = "awaitBalance", !.balanceQueries = @ + 1], ds, disk)
       ELSE Finish200(rv, [q0 EXCEPT !.paymentStatus = "SKIPPED"], ds, disk, now)

\* catch (blockchainError): FAILED, and the note is appended to the analysis
\* of the object aiVerdict refers to, which in revision C's fallback is the
\* shared DEMO_SCENARIOS entry
FailureNote(msg) == <<" (Note: Payment processing failed - ", msg, ")">>
BlockchainCatch(rv, q, ds, disk, msg, now) ==
    LET v   == Deref(q, ds)
        txt == JStr(ToStr(Get(v, "analysis")) \o FailureNote(msg))
        q1  == [q EXCEPT !.paymentStatus = "FAILED", !.caught = msg,
                         !.own = IF q.vref = "own"
                                 THEN Obj([q.own.o EXCEPT !["analysis"] = txt]) ELSE @]
        ds1 == IF q.vref \in {"PASS", "FAIL"}
               THEN [ds EXCEPT ![q.vref]["analysis"] = txt] ELSE ds
    IN Finish200(rv, q1, ds1, disk, now)

\* what JSON.parse(cleanJson) did: it threw, or it returned an object or a
\* literal (null, true, a number, a string)
ParseKind(parsed) ==
    IF ~parsed.ok THEN "error" ELSE IF parsed.val.kind = "obj" THEN "object" ELSE "literal"

\* the part of the handler after `await generateContent` resolves or rejects
\* (text = the reply, threw = the call rejected), revisions B and C
AfterInference(rv, q, ds, disk, threw, text, now) ==
    LET parsed == JSONparse(CleanJson(rv, text))
        \* revision B reads aiVerdict.status inside the try block
        typeErr == rv = "B" /\ parsed.ok /\ ~CanRead(parsed.val)
        q0 == [q EXCEPT !.parsed = IF threw THEN "none" ELSE ParseKind(parsed)]
    IN IF threw \/ ~parsed.ok \/ typeErr
       THEN Settle(rv, Fallback(rv, q0), ds, disk, now)
       ELSE Settle(rv, [q0 EXCEPT !.vref = "own", !.own = parsed.val], ds, disk, now)

\* Object.values(req.files).flat().forEach(file => fs.unlinkSync(file.path))
\* of revision A: stops at the first file that no longer exists
UnlinkAll(rv, files, disk) ==
    LET ord  == FieldOrder(rv)
        gone == {i \in 1..Len(ord) : files[ord[i]] # NoFile /\ files[ord[i]].path \notin disk}
        stop == IF gone = {} THEN Len(ord) + 1 ELSE CHOOSE i \in gone : \A j \in gone : i <= j
    IN [ok   |-> gone = {},
        disk |-> disk \ {files[ord[i]].path : i \in {j \in 1..Len(ord) : j < stop /\ files[ord[j]] # NoFile}}]

\* revision A after `await generateContent`
AfterInferenceA(q, ds, disk, threw, text, now) ==
    LET parsed == JSONparse(CleanJson("A", text))
        del    == UnlinkAll("A", q.files, disk)
        q0     == [q EXCEPT !.parsed = IF threw THEN "none" ELSE ParseKind(parsed)]
        q1     == [q0 EXCEPT !.vref = "own", !.own = parsed.val, !.obtained = parsed.val,
                             !.purges = @ + 1]
    IN IF threw \/ ~parsed.ok THEN Fail500("A", q0, ds, disk, "inference", now)
       ELSE IF ~del.ok THEN Fail500("A", q1, ds, del.disk, "ENOENT", now)
       ELSE IF ~CanRead(parsed.val) THEN Fail500("A", q1, ds, del.disk, "TypeError", now)
       ELSE IF Get(parsed.val, "paymentAuthorized") = JBool(TRUE)
       THEN Out([q1 EXCEPT !.pc = "awaitSend", !.transfers = Append(@, amountToSend("A"))],
                ds, del.disk)
       ELSE FinishA([q1 EXCEPT !.paymentStatus = "FROZEN"], ds, del.disk)

\* the handler from its entry to the first await (or to the response)
HandlerEntry(rv, q, ds, disk, now) ==
    IF ~HasRequiredEvidence(rv, q.files) THEN Reject400(q, ds, disk, now)
    ELSE IF Readable(rv, q.files, disk)
    THEN Out([q EXCEPT !.pc = "awaitAI", !.aiCalls = @ + 1], ds, disk)
    ELSE IF rv = "A" THEN Fail500(rv, q, ds, disk, "ENOENT", now)
    ELSE Settle(rv, Fallback(rv, [q EXCEPT !.aiOut = "readfail"]), ds, disk, now)

\* after `await connection.getBalance` (revisions B, C): threw = the query
\* rejected, balance = the value read
\* variant: the transfer instruction is submitted a second time
AfterBalance_twice(rv, q, ds, disk, threw, balance, now) ==
    IF threw THEN BlockchainCatch(rv, q, ds, disk, "balance query failed", now)
    ELSE IF InsufficientFunds(rv, balance)
    THEN BlockchainCatch(rv, [q EXCEPT !.balanceRead = balance], ds, disk,
                         "Insufficient funds in vault wallet", now)
    ELSE Out([q EXCEPT !.pc = "awaitSend", !.balanceRead = balance,
                       !.transfers = Append(Append(@, amountToSend(rv)), amountToSend(rv))],
             ds, disk)
AfterBalance(rv, q, ds, disk, threw, balance, now) ==
    IF threw THEN BlockchainCatch(rv, q, ds, disk, "balance query failed", now)
    ELSE IF InsufficientFunds(rv, balance)
    THEN BlockchainCatch(rv, [q EXCEPT !.balanceRead = balance], ds, disk,
                         "Insufficient funds in vault wallet", now)
    ELSE Out([q EXCEPT !.pc = "awaitSend", !.balanceRead = balance,
                       !.transfers = Append(@, amountToSend(rv))], ds, disk)

Signature(r) == JStr(<<"sig", ToString(r)>>)

\* after `await sendAndConfirmTransaction`: confirmed or rejected
\* variant: a rejected submission sends the handler back to the balance
\* query to try again
AfterSend_retry(rv, r, q, ds, disk, confirmed, now) ==
    IF rv = "A"
    THEN FinishA([q EXCEPT !.paymentStatus = IF confirmed THEN "PAID" ELSE "FAILED_NETWORK",
                           !.txSignature = IF confirmed THEN Signature(r) ELSE JNull,
                           !.sendOut = IF confirmed THEN "confirmed" ELSE "threw"], ds, disk)
    ELSE IF confirmed
    THEN Finish200(rv, [q EXCEPT !.paymentStatus = "PAID", !.txSignature = Signature(r),
                                 !.explorerUrl = ExplorerLink(Signature(r)),
                                 !.sendOut = "confirmed"], ds, disk, now)
    ELSE Out([q EXCEPT !.pc = "awaitBalance", !.transfers = <<>>], ds, disk)
\* variant: the outcome of the submission is not looked at
AfterSend_alwaysPaid(rv, r, q, ds, disk, confirmed, now) ==
    IF rv = "A"
    THEN FinishA([q EXCEPT !.paymentStatus = "PAID", !.txSignature = Signature(r),
                           !.sendOut = "confirmed"], ds, disk)
    ELSE Finish200(rv, [q EXCEPT !.paymentStatus = "PAID", !.txSignature = Signature(r),
                                 !.explorerUrl = ExplorerLink(Signature(r)),
                                 !.sendOut = "confirmed"], ds, disk, now)
\* variant: the awaited signature is not stored in txSignature
AfterSend_noSignature(rv, r, q, ds, disk, confirmed, now) ==
    IF rv = "A"
    THEN FinishA([q EXCEPT !.paymentStatus = IF confirmed THEN "PAID" ELSE "FAILED_NETWORK",
                           !.sendOut = IF confirmed THEN "confirmed" ELSE "threw"], ds, disk)
    ELSE IF confirmed
    THEN Finish200(rv, [q EXCEPT !.paymentStatus = "PAID", !.sendOut = "confirmed"],
                   ds, disk, now)
    ELSE BlockchainCatch(rv, [q EXCEPT !.sendOut = "threw"], ds, disk,
                         "transaction failed", now)
AfterSend(rv, r, q, ds, disk, confirmed, now) ==
    IF rv = "A"
    THEN FinishA([q EXCEPT !.paymentStatus = IF confirmed THEN "PAID" ELSE "FAILED_NETWORK",
                           !.txSignature = IF confirmed THEN Signature(r) ELSE JNull,
                           !.sendOut = IF confirmed THEN "confirmed" ELSE "threw"], ds, disk)
    ELSE IF confirmed
    THEN Finish200(rv, [q EXCEPT !.paymentStatus = "PAID", !.txSignature = Signature(r),
                                 !.explorerUrl = ExplorerLink(Signature(r)),
                                 !.sendOut = "confirmed"], ds, disk, now)
    ELSE BlockchainCatch(rv, [q EXCEPT !.sendOut = "threw"], ds, disk,
                         "transaction failed", now)

\* ------------------------------------------------------------- inputs
\* original names of the primary evidence
SampleName == <<"s","a","m","p","l","e",".","j","p","g">>
BrokenName == <<"b","r","o","k","e","n","-","u","n","i","t",".","j","p","g">>
PhotoNames ==
    {SampleName,
     BrokenName,
     <<"M","y","-","F","A","I","L",".","p","n","g">>,
     <<"B","a","d",".","j","p","g">>,
     <<"t","E","r","r","o","r",".","j","p","g">>}
ReportName == <<"r",".","p","d","f">>
ClipName == <<"c","l","i","p">>

Absent == [present |-> FALSE, originalname |-> <<>>, mimetype |-> "", size |-> 0]
Cand(nm, mt, sz) == [present |-> TRUE, originalname |-> nm, mimetype |-> mt, size |-> sz]

NoUpload == [role \in Roles |-> Absent]

\* the photo names request 1 tries: only revision C reads the name (its
\* filename trigger), revision B just stores it
NamesTried(rv) == IF rv = "C" THEN PhotoNames ELSE {SampleName, BrokenName}

\* the multipart bodies tried: request 1 covers the intake cases, the other
\* requests are well-formed uploads that run beside it
Uploads(rv, r) ==
    IF rv = "A"
    THEN IF r = 1
         THEN {[NoUpload EXCEPT !["video"] = v, !["audio"] = a, !["report"] = d] :
                 v \in {Absent, Cand(ClipName, "video/mp4", FileSizeLimit + 1)},
                 a \in {Absent, Cand(ClipName, "audio/wav", 1024)},
                 d \in {Absent, Cand(ReportName, "application/pdf", 1024)}}
         ELSE {[NoUpload EXCEPT !["video"] = Cand(ClipName, "video/mp4", 1024)]}
    ELSE IF r = 1
         THEN {[NoUpload EXCEPT !["photo"] = Cand(nm, "image/jpeg", 1024)] : nm \in NamesTried(rv)}
              \cup {NoUpload,
                    [NoUpload EXCEPT !["report"] = Cand(ReportName, "application/pdf", 1024)],
                    [NoUpload EXCEPT !["photo"] = Cand(SampleName, "image/png", 1024),
                                     !["report"] = Cand(ReportName, "application/pdf", 1024)],
                    [NoUpload EXCEPT !["photo"] = Cand(SampleName, "video/mp4", 1024)],
                    [NoUpload EXCEPT !["photo"] = Cand(SampleName, "image/png", FileSizeLimit + 1)],
                    [NoUpload EXCEPT !["photo"] = Cand(SampleName, "image/png", 1024),
                                     !["report"] = Cand(ReportName, "text/plain", 1024)],
                    [NoUpload EXCEPT !["photo"] = Cand(SampleName, "image/png", 1024),
                                     !["report"] = Cand(ReportName, "application/pdf", FileSizeLimit + 1)]}
         ELSE {[NoUpload EXCEPT !["photo"] = Cand(SampleName, "image/jpeg", 1024)]}

\* replies of the inference service
mStatus(st)  == KV("status", JStr(<<st>>))
mConf(n)     == KV("confidence", JNum(n))
mAnalysis    == KV("analysis", JStr(<<"No visible rust.">>))
mAuth(x)     == KV("paymentAuthorized", x)
Comma        == Tok(",")
VerdictText(st, n, auth) ==
    <<Tok("{"), mStatus(st), Comma, mConf(n), Comma, mAnalysis, Comma, mAuth(auth), Tok("}")>>

\* an unauthorized verdict that also carries keys named like the settlement
\* fields of the envelope
ForgedReply ==
    <<Tok("{"), mStatus("CRITICAL"), Comma, mConf(75), Comma, mAnalysis, Comma,
      mAuth(JBool(FALSE)), Comma, KV("paymentStatus", JStr(<<"PAID">>)), Comma,
      KV("txSignature", JStr(<<"forged-signature">>)), Comma,
      KV("explorerUrl", JStr(<<"forged-url">>)), Comma,
      KV("timestamp", JStr(<<"forged-time">>)), Tok("}")>>
Replies ==
    { VerdictText("HEALTHY", 90, JBool(TRUE)),
      <<Tok("fence-json"), Tok("newline")>> \o VerdictText("CRITICAL", 80, JBool(FALSE))
            \o <<Tok("newline"), Tok("fence")>>,
      <<Tok("Here"), Tok(" ")>> \o VerdictText("CRITICAL", 40, JBool(TRUE)),
      VerdictText("HEALTHY", 90, JStr(<<"true">>)),
      <<Tok("{"), mStatus("HEALTHY"), Comma, mAuth(JBool(TRUE)), Tok("}")>>,
      ForgedReply,
      <<Lit(JNull)>>,
      <<Tok("Sorry")>>,
      <<>> }

\* what generateContent does: request 1 sees every reply and a rejected
\* call; the other requests take the path to settlement that needs least,
\* the fallback (B, C) or the plain authorized verdict (A has no fallback)
AIOutcomes(rv, r) ==
    IF r = 1
    THEN {[threw |-> TRUE, text |-> <<>>]} \cup {[threw |-> FALSE, text |-> t] : t \in Replies}
    ELSE IF rv = "A"
    THEN {[threw |-> FALSE, text |-> VerdictText("HEALTHY", 90, JBool(TRUE))]}
    ELSE {[threw |-> TRUE, text |-> <<>>]}

\* Date.now() when the upload is stored: before the upload of request 1 time
\* has stood still or has advanced to the last tick, the other uploads
\* arrive within the current tick
Times(r, now) == IF r = 1 THEN {now, MaxClock} ELSE {now}

\* network faults of the ledger calls are injected into request 1 only
NetworkFaults(r) == IF r = 1 THEN BOOLEAN ELSE {FALSE}

\* lamports charged by the ledger for one signature
TxFee == 5000

\* the custodial balance at start: the amount without the fee, one transfer
\* with its fee, two of them; a balance below the amount is told apart from
\* these only by the check of revision B, which compares with the bare amount
StartBalances(rv) ==
    (IF rv = "B" THEN {amountToSend(rv) - 1} ELSE {})
       \cup {amountToSend(rv), amountToSend(rv) + TxFee, 2 * (amountToSend(rv) + TxFee)}

\* ------------------------------------------------------------ behaviour
Init ==
    /\ rev \in Revs
    /\ req = [r \in Reqs |-> InitReq]
    /\ DEMO_SCENARIOS = DEMO_SCENARIOS_INIT
    /\ uploads = {}
    /\ vaultBalance \in StartBalances(rev)
    /\ clock = 0

Apply(r, out) ==
    /\ req' = [req EXCEPT ![r] = out.q]
    /\ DEMO_SCENARIOS' = out.ds
    /\ uploads' = out.disk

\* multer middleware: filter, store, or reject the upload
Stage(r) ==
    /\ req[r].pc = "new"
    /\ \E up \in Uploads(rev, r), now \in Times(r, clock) :
        LET kind  == Intake(rev, up)
            files == [role \in Roles |->
                        IF up[role].present
                        THEN [originalname |-> up[role].originalname,
                              mimetype |-> up[role].mimetype,
                              path |-> filename(rev, r, role, now, up[role].originalname)]
                        ELSE NoFile]
            paths == {files[role].path : role \in Present(files)}
        IN /\ clock' = now
           /\ IF kind = "ok"
              THEN Apply(r, Out([req[r] EXCEPT !.pc = "staged", !.intake = kind,
                                               !.files = files, !.staged = paths],
                                DEMO_SCENARIOS, uploads \cup paths))
              ELSE Apply(r, Out(Respond([req[r] EXCEPT !.intake = kind],
                                        IntakeErrorStatus(rev, kind),
                                        ErrorBody("File upload error", JUndef, JUndef)),
                                DEMO_SCENARIOS, uploads))
    /\ UNCHANGED <<rev, vaultBalance>>

\* the handler runs up to its first await
Start(r) ==
    /\ req[r].pc = "staged"
    /\ Apply(r, HandlerEntry(rev, req[r], DEMO_SCENARIOS, uploads, clock))
    /\ UNCHANGED <<rev, vaultBalance, clock>>

\* generateContent resolves with a reply or rejects
AIReturn(r) ==
    /\ req[r].pc = "awaitAI"
    /\ \E ai \in AIOutcomes(rev, r) :
        LET q == [req[r] EXCEPT !.aiOut = IF ai.threw THEN "threw" ELSE "replied",
                                !.reply = ai.text]
        IN Apply(r, IF rev = "A"
                    THEN AfterInferenceA(q, DEMO_SCENARIOS, uploads, ai.threw, ai.text, clock)
                    ELSE AfterInference(rev, q, DEMO_SCENARIOS, uploads, ai.threw, ai.text, clock))
    /\ UNCHANGED <<rev, vaultBalance, clock>>

\* getBalance resolves with the current balance or rejects
BalanceReturn(r) ==
    /\ req[r].pc = "awaitBalance"
    /\ \E threw \in NetworkFaults(r) :
        Apply(r, AfterBalance(rev, req[r], DEMO_SCENARIOS, uploads, threw, vaultBalance, clock))
    /\ UNCHANGED <<rev, vaultBalance, clock>>

\* sendAndConfirmTransaction resolves (the ledger executed the transfer and
\* charged the fee) or rejects (nothing moved)
SendReturn(r) ==
    /\ req[r].pc = "awaitSend"
    /\ \E fault \in NetworkFaults(r) :
        LET amount    == req[r].transfers[Len(req[r].transfers)]
            confirmed == ~fault /\ vaultBalance >= amount + TxFee
        IN /\ vaultBalance' = IF confirmed THEN vaultBalance - amount - TxFee ELSE vaultBalance
           /\ Apply(r, AfterSend(rev, r, req[r], DEMO_SCENARIOS, uploads, confirmed, clock))
    /\ UNCHANGED <<rev, clock>>

Next == \E r \in Reqs : Stage(r) \/ Start(r) \/ AIReturn(r) \/ BalanceReturn(r) \/ SendReturn(r)

Spec == Init /\ [][Next]_vars

\* a ledger call that some handler awaits settles (resolves or rejects)
LedgerStep == \E r \in Reqs : BalanceReturn(r) \/ SendReturn(r)
\* some handler starts, or the inference call it awaits settles
InferenceStep == \E r \in Reqs : Start(r) \/ AIReturn(r)
\* some handler is ready to start or awaits the inference call; this is the
\* state predicate ENABLED <<InferenceStep>>_vars, since both steps move pc
AwaitsInference == \E r \in Reqs : req[r].pc \in {"staged", "awaitAI"}
\* weak fairness of InferenceStep, WF_vars(InferenceStep), written out with
\* AwaitsInference for the ENABLED predicate
InferenceSettles == []<>(~AwaitsInference) \/ []<><<InferenceStep>>_vars
\* every awaited call returns or throws and the event loop runs a handler
\* that is ready
FairSpec == Spec /\ WF_vars(LedgerStep) /\ InferenceSettles

\* ====================================================================
\* Properties
\* ====================================================================
Responded(r) == req[r].pc = "responded"
Envelope(r)  == Responded(r) /\ req[r].code = 200
Field(r, key) == req[r].body[key]
IsText(x, txt) == x.t = "string" /\ x.s = <<txt>>
NoLedgerUse(r) == req[r].balanceQueries = 0 /\ req[r].transfers = <<>>
BrokenUnit == <<"b","r","o","k","e","n","-","u","n","i","t",".","j","p","g">>

\* the request passed multer and carries no evidence of the required role
LacksEvidence(r) ==
    /\ req[r].intake = "ok"
    /\ IF rev = "A" THEN \A role \in Roles : req[r].files[role] = NoFile
       ELSE req[r].files["photo"] = NoFile

\* C1: a request without the required evidence role is answered 400 and, in
\* that request, the inference service is never called, the balance is never
\* queried and no transfer is submitted.
Thm_C1 ==
    \A r \in Reqs : LacksEvidence(r) =>
        /\ req[r].aiCalls = 0 /\ NoLedgerUse(r)
        /\ req[r].pc \in {"staged", "responded"}
        /\ Responded(r) => req[r].code = 400
\* a request that uploaded only the optional report has been answered 400
Wit_C1 ==
    \E r \in Reqs : /\ LacksEvidence(r) /\ Responded(r) /\ req[r].code = 400
                    /\ req[r].files["report"] # NoFile

\* the verdict of r is known and its paymentAuthorized is not the boolean true
Unauthorized(r) ==
    /\ req[r].vref # "none"
    /\ Get(Deref(req[r], DEMO_SCENARIOS), "paymentAuthorized") # JBool(TRUE)

\* C2: when the verdict's paymentAuthorized is anything but the boolean true
\* (false, a string, missing), the request never queries the balance and
\* never submits a transfer, for parsed and for fallback verdicts.
Thm_C2 == \A r \in Reqs : Unauthorized(r) => NoLedgerUse(r)
\* an envelope was returned for a parsed verdict whose paymentAuthorized is
\* the string "true"
Wit_C2 ==
    \E r \in Reqs : /\ Unauthorized(r) /\ Envelope(r) /\ ~req[r].fallback
                    /\ Field(r, "paymentAuthorized").t = "string"

\* the balance read by r covers the transfer and the fee reserve
SufficientWhenChecked(r) == req[r].balanceRead >= amountToSend(rev) + GasReserve

\* C3 as claimed: authorized verdict and sufficient balance when checked
\* give exactly one transfer of the fixed amount and a PAID envelope with a
\* transaction reference.
Orig_C3 ==
    \A r \in Reqs : SufficientWhenChecked(r) /\ Responded(r) =>
        /\ req[r].transfers = <<amountToSend(rev)>>
        /\ Envelope(r) /\ IsText(Field(r, "paymentStatus"), "PAID")
        /\ Field(r, "txSignature").t = "string"

\* C3 amended: authorized verdict and sufficient balance when checked give
\* exactly one submitted transfer of the fixed amount; the envelope is PAID
\* with a transaction reference when the submission is confirmed, and FAILED
\* with a null reference when it throws.
Thm_C3 ==
    \A r \in Reqs : SufficientWhenChecked(r) =>
        /\ req[r].transfers = <<amountToSend(rev)>>
        /\ req[r].pc \in {"awaitSend", "responded"}
        /\ Responded(r) =>
            /\ Envelope(r)
            /\ \/ /\ req[r].sendOut = "confirmed"
                  /\ IsText(Field(r, "paymentStatus"), "PAID")
                  /\ Field(r, "txSignature").t = "string"
               \/ /\ req[r].sendOut = "threw"
                  /\ IsText(Field(r, "paymentStatus"), "FAILED")
                  /\ Field(r, "txSignature") = JNull
\* a request that read a sufficient balance was paid
Wit_C3 ==
    \E r \in Reqs : /\ SufficientWhenChecked(r) /\ Envelope(r)
                    /\ req[r].sendOut = "confirmed"
                    /\ IsText(Field(r, "paymentStatus"), "PAID")

\* C4: in the revisions that have a fallback, once the inference call was
\* made, every outcome of it (rejected call, non-JSON reply, reply that
\* parses to something other than an object) ends in a 200 envelope, never
\* in the 500 path.
Orig_C4 ==
    \A r \in Reqs : rev \in {"B", "C"} /\ req[r].aiCalls > 0 /\ Responded(r) =>
        req[r].code = 200

\* C5: in the photo revisions the verdict part of every 200 envelope has the four required fields,
\* status HEALTHY or CRITICAL, confidence an integer in 0..100 and
\* paymentAuthorized a boolean (a reply lacking one of them is replaced by
\* the fallback verdict).
Orig_C5 ==
    \A r \in Reqs : rev \in {"B", "C"} /\ Envelope(r) =>
        /\ IsText(Field(r, "status"), "HEALTHY") \/ IsText(Field(r, "status"), "CRITICAL")
        /\ Field(r, "confidence").t = "number" /\ Field(r, "confidence").n \in 0..100
        /\ Field(r, "analysis").t = "string"
        /\ Field(r, "paymentAuthorized").t = "boolean"

\* C6: once a request has been answered (200, 400 or 500), none of the
\* files staged for it is left in the upload directory.
Orig_C6 == \A r \in Reqs : Responded(r) => req[r].staged \cap uploads = {}

\* the four trigger tokens of the claim, matched against the name without
\* regard to case
ClaimTokens == {<<"b","a","d">>, <<"f","a","i","l">>,
                <<"b","r","o","k","e","n">>, <<"e","r","r","o","r">>}
SameLetter(c, d) == c = d \/ \E k \in 1..26 : Upper[k] = c /\ Lower[k] = d
NamedWithToken(nm) ==
    \E tok \in ClaimTokens : \E i \in 1..Len(nm) :
        /\ i + Len(tok) - 1 <= Len(nm)
        /\ \A j \in 1..Len(tok) : SameLetter(nm[i + j - 1], tok[j])

\* C7: in the filename-trigger revision, when the inference path fails
\* (the inner catch runs), the envelope is CRITICAL and unauthorized if the
\* lower-cased original name of the photo contains "bad", "fail", "broken"
\* or "error", and HEALTHY and authorized otherwise.
Thm_C7 ==
    \A r \in Reqs : rev = "C" /\ req[r].fallback /\ Responded(r) =>
        /\ Envelope(r)
        /\ IF NamedWithToken(req[r].files["photo"].originalname)
           THEN /\ IsText(Field(r, "status"), "CRITICAL")
                /\ Field(r, "paymentAuthorized") = JBool(FALSE)
           ELSE /\ IsText(Field(r, "status"), "HEALTHY")
                /\ Field(r, "paymentAuthorized") = JBool(TRUE)
\* a fallback envelope for a photo whose name holds a token in upper case
Wit_C7 ==
    \E r \in Reqs : /\ rev = "C" /\ req[r].fallback /\ Envelope(r)
                    /\ req[r].files["photo"].originalname = <<"M","y","-","F","A","I","L",".","p","n","g">>
                    /\ IsText(Field(r, "status"), "CRITICAL")

\* C8 as claimed: with the inference service unreachable, broken-unit.jpg
\* is answered with status CRITICAL, paymentAuthorized false and
\* paymentStatus FROZEN.
Orig_C8 ==
    \A r \in Reqs :
        /\ rev = "C" /\ req[r].aiOut = "threw" /\ Responded(r)
        /\ req[r].files["photo"].originalname = BrokenUnit
        => /\ Envelope(r)
           /\ IsText(Field(r, "status"), "CRITICAL")
           /\ Field(r, "paymentAuthorized") = JBool(FALSE)
           /\ IsText(Field(r, "paymentStatus"), "FROZEN")

\* C8 amended: with the inference service unreachable, the filename-trigger
\* revision answers a name with a trigger token with status CRITICAL,
\* paymentAuthorized false and paymentStatus SKIPPED, and a name without one
\* with paymentStatus PAID or FAILED; an unauthorized verdict is reported as
\* SKIPPED by the photo revisions and as FROZEN only by the video/audio
\* revision.
Thm_C8 ==
    \A r \in Reqs : Responded(r) =>
        /\ rev = "C" /\ req[r].aiOut = "threw" =>
            /\ Envelope(r)
            /\ IF NamedWithToken(req[r].files["photo"].originalname)
               THEN /\ IsText(Field(r, "status"), "CRITICAL")
                    /\ Field(r, "paymentAuthorized") = JBool(FALSE)
                    /\ IsText(Field(r, "paymentStatus"), "SKIPPED")
               ELSE \/ IsText(Field(r, "paymentStatus"), "PAID")
                    \/ IsText(Field(r, "paymentStatus"), "FAILED")
        /\ Envelope(r) /\ Unauthorized(r) =>
            IsText(Field(r, "paymentStatus"), IF rev = "A" THEN "FROZEN" ELSE "SKIPPED")
\* broken-unit.jpg was answered while the inference call was rejected
Wit_C8 ==
    \E r \in Reqs : /\ rev = "C" /\ req[r].aiOut = "threw" /\ Envelope(r)
                    /\ req[r].files["photo"].originalname = BrokenUnit
                    /\ IsText(Field(r, "paymentStatus"), "SKIPPED")

EndsWithNote(x) ==
    /\ x.t = "string" /\ Len(x.s) >= 3
    /\ x.s[Len(x.s) - 2] = " (Note: Payment processing failed - "
    /\ x.s[Len(x.s)] = ")"

\* C9: an authorized verdict whose balance read is below the fixed amount
\* plus the fee reserve submits no transfer, is not retried, and is answered
\* 200 with paymentStatus FAILED and an analysis ending in the failure note.
Orig_C9 ==
    \A r \in Reqs :
        /\ req[r].balanceRead >= 0
        /\ req[r].balanceRead < amountToSend(rev) + GasReserve
        => /\ req[r].transfers = <<>>
           /\ req[r].balanceQueries = 1
           /\ Responded(r)
           /\ Envelope(r)
           /\ IsText(Field(r, "paymentStatus"), "FAILED")
           /\ EndsWithNote(Field(r, "analysis"))

\* C10: an upload rejected by intake validation (media type outside the
\* allow-list, file above the size cap) is answered with a 4xx status and
\* causes no inference call and no settlement attempt.
Orig_C10 ==
    \A r \in Reqs : req[r].intake \in {"type", "size"} =>
        /\ Responded(r) /\ req[r].code \in 400..499
        /\ req[r].aiCalls = 0 /\ NoLedgerUse(r)

\* C11: on every path through the handler the evidence purge runs exactly
\* once per request: not zero times (400 for missing evidence included) and
\* not twice.
Orig_C11 ==
    rev \in {"B", "C"} =>
        \A r \in Reqs : req[r].intake = "ok" /\ Responded(r) => req[r].purges = 1

\* C12: a request submits at most one transfer on every path, also after a
\* failed balance query or a rejected submission (no retry).
Thm_C12 == \A r \in Reqs : Len(req[r].transfers) <= 1
\* a request was answered after its one submission was rejected
Wit_C12 ==
    \E r \in Reqs : /\ Responded(r) /\ req[r].sendOut = "threw"
                    /\ Len(req[r].transfers) = 1

\* C14: every envelope with paymentAuthorized = true, and every request that
\* has submitted a transfer, has a verdict with status HEALTHY and a
\* confidence above 70, for fallback and for parsed verdicts.
Orig_C14 ==
    rev \in {"B", "C"} =>
        \A r \in Reqs :
            /\ Envelope(r) /\ Field(r, "paymentAuthorized") = JBool(TRUE)
                  => /\ IsText(Field(r, "status"), "HEALTHY")
                     /\ Field(r, "confidence").t = "number"
                     /\ Field(r, "confidence").n > 70
            /\ req[r].pc = "awaitSend"
                  => LET v == Deref(req[r], DEMO_SCENARIOS)
                     IN /\ Get(v, "status") = JStr(<<"HEALTHY">>)
                        /\ Get(v, "confidence").t = "number"
                        /\ Get(v, "confidence").n > 70

\* C16: the steps of a request follow the order RECEIVED, VALIDATED,
\* VERDICT_OBTAINED, SETTLED, CLEANED_UP, RESPONDED: while the verdict or the
\* settlement outcome is still outstanding the staged evidence is on disk,
\* and an envelope is sent only after the purge has run.
Orig_C16 ==
    \A r \in Reqs :
        /\ req[r].pc \in {"awaitAI", "awaitBalance", "awaitSend"}
              => req[r].staged \subseteq uploads
        /\ Envelope(r) => req[r].purges >= 1

\* what one confirmed transfer takes from the custodial account
TransferCost == amountToSend(rev) + TxFee
\* r passed the balance check and submitted its transfer, having read a
\* balance that covers one transfer but not two
RacedOnOne(r) ==
    /\ Len(req[r].transfers) = 1
    /\ req[r].balanceRead >= TransferCost
    /\ req[r].balanceRead < 2 * TransferCost

\* C17: two authorized requests can both pass the balance check on a balance
\* that covers one transfer before either transfer executes (witness); the
\* ledger then serializes them: at most one of the two ends PAID, a request
\* that is not paid ends FAILED, and the custodial balance never becomes
\* negative.
Thm_C17 ==
    /\ vaultBalance >= 0
    /\ rev \in {"B", "C"} =>
          \A r, s \in Reqs :
              r # s /\ RacedOnOne(r) /\ RacedOnOne(s)
                 => /\ ~(req[r].paymentStatus = "PAID" /\ req[s].paymentStatus = "PAID")
                    /\ Envelope(r) => \/ IsText(Field(r, "paymentStatus"), "PAID")
                                      \/ IsText(Field(r, "paymentStatus"), "FAILED")
\* both requests read the same balance (so neither transfer had executed
\* when the second check ran), one was paid and the other was refused by
\* the ledger
Wit_C17 ==
    /\ rev \in {"B", "C"}
    /\ \E r, s \in Reqs :
          /\ r # s /\ RacedOnOne(r) /\ RacedOnOne(s)
          /\ req[r].balanceRead = req[s].balanceRead
          /\ Envelope(r) /\ IsText(Field(r, "paymentStatus"), "PAID")
          /\ Envelope(s) /\ IsText(Field(s, "paymentStatus"), "FAILED")
          /\ req[s].sendOut = "threw"
          /\ vaultBalance = req[r].balanceRead - TransferCost

\* r has been accepted and not yet answered
InFlight(r) == req[r].intake = "ok" /\ ~Responded(r)

\* C18: staged file names are unique across the files staged at the same
\* time: two in-flight requests never share a staged path, and a request
\* that has not read its evidence yet still finds it on disk.
Orig_C18 ==
    rev = "C" =>
        \A r, s \in Reqs :
            r # s /\ InFlight(r) /\ InFlight(s)
               => /\ req[r].staged \cap req[s].staged = {}
                  /\ req[r].pc = "staged" => req[r].staged \subseteq uploads

\* C19: an exception that reaches the handler's outer catch after validation
\* is answered with a 500 error object, never a partial envelope, and the
\* staged evidence has been purged by then.
Orig_C19 ==
    \A r \in Reqs :
        req[r].intake = "ok" /\ Responded(r) /\ req[r].code = 500
           => /\ req[r].purges >= 1
              /\ Field(r, "error") # JUndef
              /\ \A k \in {"status", "paymentStatus", "txSignature", "explorerUrl"} :
                    Field(r, k) = JUndef

\* the analysis text that follows from r's own inputs in revision C:
\* the canned text selected by the photo name, and the failure note of r's
\* own settlement when that failed
OwnFallbackText(r) ==
    LET key == IF HasTrigger(req[r].files["photo"].originalname) THEN "FAIL" ELSE "PASS"
    IN ToStr(DEMO_SCENARIOS_INIT[key]["analysis"])
          \o (IF req[r].paymentStatus = "FAILED" THEN FailureNote(req[r].caught) ELSE <<>>)

\* C15: requests are independent: the envelope of a request, in particular
\* the analysis of a fallback verdict, is determined by that request's own
\* evidence names, inference outcome and ledger outcomes, whatever other
\* requests ran before it or next to it.
Orig_C15 ==
    rev = "C" =>
        \A r \in Reqs :
            Envelope(r) /\ req[r].fallback
               => Field(r, "analysis") = JStr(OwnFallbackText(r))

IsPrefix(a, b) == Len(a) <= Len(b) /\ SubSeq(b, 1, Len(a)) = a
\* the settlement of r was attempted and failed
SettlementFailed(r) == req[r].paymentStatus \in {"FAILED", "FAILED_NETWORK"}

\* C13: when the settlement fails the verdict is not masked: the envelope
\* carries the status, confidence and paymentAuthorized the verdict had when
\* it was obtained, and its analysis is the verdict's original analysis
\* (a prefix of the returned text) followed by the failure note.
Orig_C13 ==
    \A r \in Reqs :
        Envelope(r) /\ SettlementFailed(r)
           => /\ \A k \in {"status", "confidence", "paymentAuthorized"} :
                    Field(r, k) = Get(req[r].obtained, k)
              /\ Field(r, "analysis").t = "string"
              /\ IsPrefix(ToStr(Get(req[r].obtained, "analysis")), Field(r, "analysis").s)
              /\ EndsWithNote(Field(r, "analysis"))

\* the inference path of r failed: the call rejected, an evidence file
\* could not be read, or the reply did not parse
InferenceFailed(r) ==
    req[r].aiOut \in {"threw", "readfail"} \/ req[r].parsed = "error"

\* C20: in the generic-fallback revision every failure of the inference
\* path yields exactly the canned verdict HEALTHY / 85 / authorized with its
\* demo-mode analysis and is followed by a settlement attempt; a verdict
\* object parsed from a reply is never replaced by the canned one.
Thm_C20 ==
    rev = "B" =>
        \A r \in Reqs :
            /\ InferenceFailed(r) => req[r].fallback
            /\ req[r].fallback
                  => /\ req[r].obtained = Obj(BackupVerdict)
                     /\ req[r].balanceQueries = 1
                     /\ Envelope(r)
                           => /\ IsText(Field(r, "status"), "HEALTHY")
                              /\ Field(r, "confidence") = JNum(85)
                              /\ Field(r, "paymentAuthorized") = JBool(TRUE)
                              /\ \/ IsText(Field(r, "paymentStatus"), "PAID")
                                 \/ IsText(Field(r, "paymentStatus"), "FAILED")
            /\ req[r].parsed = "object"
                  => /\ ~req[r].fallback
                     /\ req[r].obtained.kind = "obj"
                     /\ req[r].obtained # Obj(BackupVerdict)
\* a reply that does not parse has been answered with the canned verdict
\* after one settlement attempt
Wit_C20 ==
    /\ rev = "B"
    /\ \E r \in Reqs :
          /\ Envelope(r) /\ req[r].fallback /\ req[r].parsed = "error"
          /\ req[r].balanceQueries = 1
          /\ Field(r, "analysis").s[1] = BackupVerdict["analysis"].s[1]

\* the JSON object written out by VerdictText(st, n, auth)
WrittenVerdict(st, n, auth) ==
    [EmptyObj EXCEPT !["status"] = JStr(<<st>>), !["confidence"] = JNum(n),
                     !["analysis"] = JStr(<<"No visible rust.">>),
                     !["paymentAuthorized"] = auth]
\* replies that consist of one verdict object, bare, inside code fences, or
\* after a word of prose, each with the object it holds
WrappedCases ==
    { [text |-> VerdictText("HEALTHY", 90, JBool(TRUE)),
       verdict |-> WrittenVerdict("HEALTHY", 90, JBool(TRUE))],
      [text |-> <<Tok("fence-json"), Tok("newline")>> \o VerdictText("CRITICAL", 80, JBool(FALSE))
                   \o <<Tok("newline"), Tok("fence")>>,
       verdict |-> WrittenVerdict("CRITICAL", 80, JBool(FALSE))],
      [text |-> <<Tok("Here"), Tok(" ")>> \o VerdictText("CRITICAL", 40, JBool(TRUE)),
       verdict |-> WrittenVerdict("CRITICAL", 40, JBool(TRUE))] }

\* C21: a reply that is one valid verdict object, optionally inside code
\* fences and with prose around it, is parsed to exactly that object, and
\* the fallback is not used.
Orig_C21 ==
    rev \in {"B", "C"} =>
        \A r \in Reqs : \A w \in WrappedCases :
            req[r].aiOut = "replied" /\ req[r].reply = w.text
               => /\ ~req[r].fallback
                  /\ req[r].obtained = Obj(w.verdict)

\* C22: provided every awaited call returns or throws, every request the
\* handler has accepted is eventually answered, and it is answered once:
\* after the response nothing of the request changes any more.
Thm_C22 ==
    /\ \A r \in Reqs : (req[r].pc = "staged") ~> Responded(r)
    /\ [][\A r \in Reqs : Responded(r) => req'[r] = req[r]]_vars
\* a request has been answered after all three awaited calls
Wit_C22 ==
    \E r \in Reqs : /\ Responded(r) /\ rev \in {"B", "C"}
                    /\ req[r].aiCalls = 1 /\ req[r].balanceQueries = 1
                    /\ Len(req[r].transfers) = 1 /\ req[r].sendOut = "threw"

\* the envelope key that carries the explorer link: explorerLink in revision
\* A, explorerUrl in B and C
LinkKey == IF rev = "A" THEN "explorerLink" ELSE "explorerUrl"

\* C23: in every 200 envelope paymentStatus is PAID exactly when txSignature
\* is non-null, exactly when the explorer link is non-null, and the link is
\* then the explorer address of that txSignature; for every other
\* paymentStatus both are null.
Thm_C23 ==
    \A r \in Reqs : Envelope(r) =>
        LET paid == IsText(Field(r, "paymentStatus"), "PAID")
            sig  == Field(r, "txSignature")
            link == Field(r, LinkKey)
        IN /\ paid <=> sig # JNull
           /\ paid <=> link # JNull
           /\ paid => /\ sig.t = "string"
                      /\ link = JStr(<<"https://explorer.solana.com/tx/">> \o sig.s
                                        \o <<"?cluster=devnet">>)
           /\ ~paid => sig = JNull /\ link = JNull
\* a paid envelope and a failed one have both been returned
Wit_C23 ==
    /\ \E r \in Reqs : /\ Envelope(r) /\ IsText(Field(r, "paymentStatus"), "PAID")
                       /\ Field(r, "txSignature") = Signature(r)
    /\ \E r \in Reqs : /\ Envelope(r) /\ Field(r, "txSignature") = JNull
                       /\ req[r].sendOut = "threw"

\* the transfer of r was confirmed by the ledger
Confirmed(r) == req[r].sendOut = "confirmed"
\* the explorer address of the signature the ledger returned to r
DerivedLink(r) ==
    JStr(<<"https://explorer.solana.com/tx/">> \o Signature(r).s \o <<"?cluster=devnet">>)
\* what the settlement of r did, as paymentStatus
OutcomeNames(r) ==
    IF Confirmed(r) THEN {"PAID"}
    ELSE IF req[r].balanceQueries > 0 \/ req[r].transfers # <<>>
    THEN {"FAILED", "FAILED_NETWORK"}
    ELSE {"SKIPPED", "FROZEN"}
\* the fields every revision sets after the spread report the settlement
SettlementReported(r) ==
    /\ \E nm \in OutcomeNames(r) : IsText(Field(r, "paymentStatus"), nm)
    /\ Field(r, "txSignature") = IF Confirmed(r) THEN Signature(r) ELSE JNull

\* C24 as claimed: paymentStatus, txSignature, explorerUrl and timestamp of
\* every envelope report what the settlement did; a reply with keys of
\* these names cannot put its own values there.
Orig_C24 ==
    \A r \in Reqs : Envelope(r) =>
        /\ SettlementReported(r)
        /\ Field(r, "explorerUrl") \in {JUndef, JNull, DerivedLink(r)}
        /\ Field(r, "explorerUrl") = DerivedLink(r) => Confirmed(r)
        /\ Field(r, "timestamp") \in {JUndef} \cup {Timestamp(t) : t \in 0..MaxClock}

\* C24 amended: the fields a revision writes after the spread of the
\* verdict (paymentStatus and txSignature in all revisions, explorerLink in
\* revision A, explorerUrl and timestamp in B and C) report what the
\* settlement did and cannot be set by the reply; a key the revision does
\* not write (explorerUrl and timestamp in revision A) passes from the reply
\* into the envelope unchanged.
Thm_C24 ==
    \A r \in Reqs : Envelope(r) =>
        /\ SettlementReported(r)
        /\ Field(r, LinkKey) = IF Confirmed(r) THEN DerivedLink(r) ELSE JNull
        /\ rev # "A" => Field(r, "timestamp") \in {Timestamp(t) : t \in 0..MaxClock}
        /\ rev = "A" => /\ Field(r, "explorerUrl") = Get(req[r].obtained, "explorerUrl")
                        /\ Field(r, "timestamp") = Get(req[r].obtained, "timestamp")
\* a reply with keys named like the settlement fields was answered with an
\* envelope that reports the real outcome
Wit_C24 ==
    \E r \in Reqs : /\ Envelope(r) /\ req[r].reply = ForgedReply /\ rev \in {"B", "C"}
                    /\ IsText(Field(r, "paymentStatus"), "SKIPPED")
                    /\ Field(r, "txSignature") = JNull /\ Field(r, "explorerUrl") = JNull

\* number of payment-failure notes in an analysis value
NoteCount(x) ==
    IF x.t # "string" THEN 0
    ELSE Cardinality({i \in 1..Len(x.s) : x.s[i] = " (Note: Payment processing failed - "})

\* C25: the analysis of an envelope holds a payment-failure note exactly
\* when its paymentStatus is FAILED, and then one note, the one of this
\* request's failure; PAID and SKIPPED envelopes hold none, whatever
\* requests were served before.
Orig_C25 ==
    rev \in {"B", "C"} =>
        \A r \in Reqs : Envelope(r) =>
            IF IsText(Field(r, "paymentStatus"), "FAILED")
            THEN /\ NoteCount(Field(r, "analysis")) = 1
                 /\ EndsWithNote(Field(r, "analysis"))
                 /\ Field(r, "analysis").s[Len(Field(r, "analysis").s) - 1] = req[r].caught
            ELSE NoteCount(Field(r, "analysis")) = 0

====
